---- MODULE Spec2Model ----
(***************************************************************************)
(* The vNFT program of SmartContract-DarkDungeon                           *)
(* (src/vNFTContract/app/src/services/service.rs and app/src/lib.rs) as a  *)
(* state machine.  One action per exported service method; the body of     *)
(* every method is an operator that threads the in-memory VnftState        *)
(* through the method's statements in source order and stops at the first  *)
(* panic.  The host (Gear) discards the memory and the outgoing messages   *)
(* of an invocation that panicked; Commit models that.                     *)
(*                                                                         *)
(* u64 values are scaled down to the range 0..U64Max so that the checked   *)
(* and saturating operations of the source reach their edge.               *)
(*                                                                         *)
(* The MainContract program (src/MainContract/app/src/services/service.rs) *)
(* is modelled next to it, with its own state and its own specification    *)
(* MainSpec: the two programs share no memory.                             *)
(***************************************************************************)
EXTENDS Integers, Sequences, FiniteSets, Bags, TLC

VARIABLES
    VNFT_STATE,  \* the static VnftState: admin, nfts, owner_nfts, next_id, ...
    mailbox,     \* bag of delayed messages the program sent and the host holds
    last,        \* the invocation handled last: method, source, arguments, outcome
    issued,      \* ids returned by successful mint calls, oldest first
    MAIN_CONTRACT_STATE,  \* the static MainContractState of the MainContract
                          \* program: admins, selections, run stats, keyring
    main_last,   \* the MainContract invocation handled last
    key_calls    \* per user, the last keyring call of theirs that succeeded

vnft_vars == <<VNFT_STATE, mailbox, last, issued>>
\* the variables of the MainContract program, a program of its own: the vNFT
\* program's steps leave them alone, and the other way round
main_vars == <<MAIN_CONTRACT_STATE, main_last, key_calls>>
vars == <<vnft_vars, main_vars>>

----------------------------------------------------------------------------
(* Bounds of the model *)

\* largest value of the scaled-down u64 (u64::MAX)
U64Max == 3
\* largest updates_count a caller passes to start_metadata_update
MaxCount == 2
\* length of the non-empty media list a caller passes to mint
MaxMedia == 2
\* delayed messages the host holds at once
MaxInFlight == 2

----------------------------------------------------------------------------
(* Principals and inputs *)

\* msg::source() of a message sent by a user
Users == {"admin", "alice"}
\* exec::program_id()
ProgramId == "vnft"
\* Option::None of main_contract
None == "None"

\* the media list with n entries
Media(n) == [i \in 1..n |-> i]
MediaChoices == {Media(0), Media(MaxMedia)}
\* a current_media_index inside every non-empty list, and the largest u64
IndexChoices == {0, U64Max}
MetadataChoices ==
    {md \in [name : {"name"}, description : {"description"},
             current_media_index : IndexChoices, media : MediaChoices,
             reference : {"reference"}] :
        md.media = <<>> => md.current_media_index = 0}
\* the ids mint can issue before next_id stops at U64Max
IdChoices == 1..(U64Max - 1)
CountChoices == 0..MaxCount
PeriodChoices == {0, 1}
\* whether the host accepts the messages an invocation sends (the delayed
\* request, the event)
HostChoices == BOOLEAN
\* the arguments a user passes when calling update_metadata directly
ForgedRequests ==
    [token_id : IdChoices, owner : Users, update_period : {1},
     updates_count : {1}]
\* exec::gas_available() at the time update_metadata re-arms
GasAvailableChoices == {U64Max}

----------------------------------------------------------------------------
(* u64 arithmetic of the source *)

\* u64::wrapping_add in the place of checked_add: always Some
checked_add_wrapping(a, b) == [some |-> TRUE, value |-> (a + b) % (U64Max + 1)]
\* checked_add with the addend dropped
checked_add_same(a, b) ==
    IF a + b > U64Max THEN [some |-> FALSE, value |-> 0]
    ELSE [some |-> TRUE, value |-> a]
\* u64::checked_add: Some(a + b), or None when the sum does not fit
checked_add(a, b) ==
    IF a + b > U64Max THEN [some |-> FALSE, value |-> 0]
    ELSE [some |-> TRUE, value |-> a + b]
\* u64::saturating_add
saturating_add(a, b) == IF a + b > U64Max THEN U64Max ELSE a + b
\* u64::saturating_sub , u32::saturating_sub
saturating_sub(a, b) == IF a < b THEN 0 ELSE a - b
\* u64::wrapping_mul
wrapping_mul(a, b) == (a * b) % (U64Max + 1)
\* u64::saturating_mul
saturating_mul(a, b) == IF a * b > U64Max THEN U64Max ELSE a * b

----------------------------------------------------------------------------
(* HashMap and Vec operations *)

\* HashMap::insert
MapInsert(m, k, v) == [x \in (DOMAIN m) \cup {k} |-> IF x = k THEN v ELSE m[x]]
\* remove that leaves the entry in place
MapRemoveNothing(m, k) == m
\* HashMap::remove
MapRemove(m, k) == [x \in (DOMAIN m) \ {k} |-> m[x]]
\* Vec::retain(|x| *x != id)
Retain(owned, id) == SelectSeq(owned, LAMBDA x : x # id)
\* the old owner's list left as it was
RetainEntryKept(owner_nfts, who, id) == owner_nfts
\* owner_nfts.get_mut(&who) then retain: an absent key stays absent
RetainEntry(owner_nfts, who, id) ==
    IF who \in DOMAIN owner_nfts
    THEN [owner_nfts EXCEPT ![who] = Retain(@, id)]
    ELSE owner_nfts
\* entry(to).or_insert(vec![id]) with no push: an existing list gets nothing
PushEntryAbsentOnly(owner_nfts, to, id) ==
    IF to \in DOMAIN owner_nfts
    THEN owner_nfts
    ELSE [x \in (DOMAIN owner_nfts) \cup {to} |->
             IF x = to THEN <<id>> ELSE owner_nfts[x]]
\* the id put in front of the list instead of pushed to its end
PushEntryFront(owner_nfts, to, id) ==
    IF to \in DOMAIN owner_nfts
    THEN [owner_nfts EXCEPT ![to] = <<id>> \o @]
    ELSE [x \in (DOMAIN owner_nfts) \cup {to} |->
             IF x = to THEN <<id>> ELSE owner_nfts[x]]
\* owner_nfts.entry(to).or_insert(Vec::new()).push(id)
PushEntry(owner_nfts, to, id) ==
    IF to \in DOMAIN owner_nfts
    THEN [owner_nfts EXCEPT ![to] = Append(@, id)]
    ELSE MapInsert(owner_nfts, to, <<id>>)

----------------------------------------------------------------------------
(* Outcome of running a method body *)

\* the body ran to its end: st is the memory, sent the messages it sent
Ok(st, sent, ret) == [err |-> "ok", st |-> st, sent |-> sent, ret |-> ret]
\* the body panicked with text err when the memory was st
Panic(st, err) == [err |-> err, st |-> st, sent |-> <<>>, ret |-> 0]

\* a host that keeps the memory of every invocation
CommitAlways(pre, run) == run.st
\* the host keeps the memory of an invocation only when it did not panic
Commit(pre, run) == IF run.err = "ok" THEN run.st ELSE pre

----------------------------------------------------------------------------
(* Token lifecycle: mint, burn, transfer, set_main_contract *)

\* mint without the check of the caller
mint_unguarded(s, caller, to, metadata, emit_ok) ==
    IF ~checked_add(s.next_id, 1).some THEN Panic(s, "Overflow")
    ELSE
    LET new_id == s.next_id
        nft == [id |-> new_id, owner |-> to, metadata |-> metadata]
        s1 == [s EXCEPT !.next_id = checked_add(s.next_id, 1).value]
        s2 == [s1 EXCEPT !.nfts = MapInsert(@, new_id, nft)]
        s3 == [s2 EXCEPT !.owner_nfts = PushEntry(@, to, new_id)]
    IN  IF ~emit_ok THEN Panic(s3, "Notification failure")
        ELSE Ok(s3, <<>>, new_id)

\* Service::mint
mint(s, caller, to, metadata, emit_ok) ==
    LET is_admin == caller = s.admin
        is_main == s.main_contract # None /\ s.main_contract = caller
    IN  IF ~is_admin /\ ~is_main THEN Panic(s, "Not authorized")
        ELSE IF ~checked_add(s.next_id, 1).some THEN Panic(s, "Overflow")
        ELSE
        LET new_id == s.next_id
            nft == [id |-> new_id, owner |-> to, metadata |-> metadata]
            s1 == [s EXCEPT !.next_id = checked_add(s.next_id, 1).value]
            s2 == [s1 EXCEPT !.nfts = MapInsert(@, new_id, nft)]
            s3 == [s2 EXCEPT !.owner_nfts = PushEntry(@, to, new_id)]
        IN  IF ~emit_ok THEN Panic(s3, "Notification failure")
            ELSE Ok(s3, <<>>, new_id)

\* Service::burn
burn(s, caller, id, emit_ok) ==
    IF id \notin DOMAIN s.nfts THEN Panic(s, "NFT not found")
    ELSE IF s.nfts[id].owner # caller THEN Panic(s, "Only owner can burn")
    ELSE
    LET s1 == [s EXCEPT !.nfts = MapRemove(@, id)]
        s2 == [s1 EXCEPT !.owner_nfts = RetainEntry(@, caller, id)]
    IN  IF ~emit_ok THEN Panic(s2, "Notification failure")
        ELSE Ok(s2, <<>>, id)

\* transfer that also rewinds the token's media index
transfer_resets_index(s, caller, id, to, emit_ok) ==
    IF id \notin DOMAIN s.nfts THEN Panic(s, "NFT not found")
    ELSE IF s.nfts[id].owner # caller THEN Panic(s, "Only owner can transfer")
    ELSE
    LET from == s.nfts[id].owner
        s0 == [s EXCEPT !.nfts[id].metadata.current_media_index = 0]
        s1 == [s0 EXCEPT !.nfts[id].owner = to]
        s2 == [s1 EXCEPT !.owner_nfts = RetainEntry(@, from, id)]
        s3 == [s2 EXCEPT !.owner_nfts = PushEntry(@, to, id)]
    IN  IF ~emit_ok THEN Panic(s3, "Notification failure")
        ELSE Ok(s3, <<>>, id)

\* Service::transfer
transfer(s, caller, id, to, emit_ok) ==
    IF id \notin DOMAIN s.nfts THEN Panic(s, "NFT not found")
    ELSE IF s.nfts[id].owner # caller THEN Panic(s, "Only owner can transfer")
    ELSE
    LET from == s.nfts[id].owner
        s1 == [s EXCEPT !.nfts[id].owner = to]
        s2 == [s1 EXCEPT !.owner_nfts = RetainEntry(@, from, id)]
        s3 == [s2 EXCEPT !.owner_nfts = PushEntry(@, to, id)]
    IN  IF ~emit_ok THEN Panic(s3, "Notification failure")
        ELSE Ok(s3, <<>>, id)

\* set_main_contract without the check of the caller
set_main_contract_unguarded(s, caller, main_contract, emit_ok) ==
    LET s1 == [s EXCEPT !.main_contract = main_contract]
    IN  IF ~emit_ok THEN Panic(s1, "Notification failure")
        ELSE Ok(s1, <<>>, 0)

\* Service::set_main_contract
set_main_contract(s, caller, main_contract, emit_ok) ==
    IF caller # s.admin THEN Panic(s, "Only admin can set main contract")
    ELSE
    LET s1 == [s EXCEPT !.main_contract = main_contract]
    IN  IF ~emit_ok THEN Panic(s1, "Notification failure")
        ELSE Ok(s1, <<>>, 0)

----------------------------------------------------------------------------
(* Dynamic metadata: the request the program sends to itself *)

\* SCALE encoding of a byte-string literal b"...": a &[u8; N] is written as
\* its N bytes, with no length in front
EncodeBytes(text) == [compact_len |-> FALSE, bytes |-> text]
\* SCALE encoding of a str / String: the compact length, then the bytes
EncodeStr(text) == [compact_len |-> TRUE, bytes |-> text]

\* the header a request routed to Service / UpdateMetadata would carry
RequestHeaderRouted == <<EncodeStr("Service"), EncodeStr("UpdateMetadata")>>
\* the first two parts of the request: b"DynamicNft", b"UpdateMetadata"
RequestHeader == <<EncodeBytes("DynamicNft"), EncodeBytes("UpdateMetadata")>>

\* the request carrying one update more than it was given
RequestUndecremented(token_id, owner, update_period, updates_count) ==
    RequestHeader \o
    <<[token_id |-> token_id, owner |-> owner,
       update_period |-> update_period, updates_count |-> updates_count + 1]>>
\* the request: header, then the encoded tuple of arguments
Request(token_id, owner, update_period, updates_count) ==
    RequestHeader \o
    <<[token_id |-> token_id, owner |-> owner,
       update_period |-> update_period, updates_count |-> updates_count]>>

\* msg::send_bytes_with_gas_delayed(program, payload, gas_limit, value, delay)
DelayedMessage(program, payload, gas_limit, value, delay) ==
    [destination |-> program, payload |-> payload, gas_limit |-> gas_limit,
     value |-> value, delay |-> delay]

\* the index moved two places
AdvanceIndexTwice(current_media_index, media_len) ==
    IF current_media_index + 2 > U64Max THEN U64Max % media_len
    ELSE (current_media_index + 2) % media_len
\* metadata.current_media_index.saturating_add(1) % media_len
AdvanceIndex(current_media_index, media_len) ==
    saturating_add(current_media_index, 1) % media_len

\* start_metadata_updates without the comparison of the owner with msg_src
start_metadata_updates_any_caller(gas_for_one_time_updating, nfts, token_id, msg_src, updates_count, update_period, send_ok) ==
    IF token_id \notin DOMAIN nfts
    THEN [err |-> "TokenDoesNotExist", nfts |-> nfts, sent |-> <<>>]
    ELSE
    LET metadata == nfts[token_id].metadata
        media_len == Len(metadata.media)
    IN  IF media_len = 0
        THEN [err |-> "TokenDoesNotExist", nfts |-> nfts, sent |-> <<>>]
        ELSE
        LET nfts1 == [nfts EXCEPT ![token_id].metadata.current_media_index =
                         AdvanceIndex(@, media_len)]
        IN  IF saturating_sub(updates_count, 1) # 0
            THEN IF ~send_ok
                 THEN [err |-> "Error in sending message", nfts |-> nfts1,
                       sent |-> <<>>]
                 ELSE [err |-> "ok", nfts |-> nfts1,
                       sent |-> <<DelayedMessage(ProgramId,
                                    Request(token_id, msg_src, update_period,
                                            updates_count - 1),
                                    saturating_mul(gas_for_one_time_updating,
                                                   updates_count),
                                    0, update_period)>>]
            ELSE [err |-> "ok", nfts |-> nfts1, sent |-> <<>>]

\* start_metadata_updates: Err(e) leaves nfts as it was; a failed send panics
\* after the index was written
start_metadata_updates(gas_for_one_time_updating, nfts, token_id, msg_src, updates_count, update_period, send_ok) ==
    IF token_id \notin DOMAIN nfts
    THEN [err |-> "TokenDoesNotExist", nfts |-> nfts, sent |-> <<>>]
    ELSE IF nfts[token_id].owner # msg_src
    THEN [err |-> "DeniedAccess", nfts |-> nfts, sent |-> <<>>]
    ELSE
    LET metadata == nfts[token_id].metadata
        media_len == Len(metadata.media)
    IN  IF media_len = 0
        THEN [err |-> "TokenDoesNotExist", nfts |-> nfts, sent |-> <<>>]
        ELSE
        LET nfts1 == [nfts EXCEPT ![token_id].metadata.current_media_index =
                         AdvanceIndex(@, media_len)]
        IN  IF saturating_sub(updates_count, 1) # 0
            THEN IF ~send_ok
                 THEN [err |-> "Error in sending message", nfts |-> nfts1,
                       sent |-> <<>>]
                 ELSE [err |-> "ok", nfts |-> nfts1,
                       sent |-> <<DelayedMessage(ProgramId,
                                    Request(token_id, msg_src, update_period,
                                            updates_count - 1),
                                    saturating_mul(gas_for_one_time_updating,
                                                   updates_count),
                                    0, update_period)>>]
            ELSE [err |-> "ok", nfts |-> nfts1, sent |-> <<>>]

\* the safety reserve update_metadata keeps of the gas left
GasReserve == 1000000000

\* updates_metadata: as start_metadata_updates, funded from the gas left, and
\* returning the new index
updates_metadata(nfts, token_id, owner, update_period, updates_count, gas_available, send_ok) ==
    IF token_id \notin DOMAIN nfts
    THEN [err |-> "TokenDoesNotExist", nfts |-> nfts, sent |-> <<>>, ret |-> 0]
    ELSE IF nfts[token_id].owner # owner
    THEN [err |-> "DeniedAccess", nfts |-> nfts, sent |-> <<>>, ret |-> 0]
    ELSE
    LET metadata == nfts[token_id].metadata
        media_len == Len(metadata.media)
    IN  IF media_len = 0
        THEN [err |-> "TokenDoesNotExist", nfts |-> nfts, sent |-> <<>>,
              ret |-> 0]
        ELSE
        LET nfts1 == [nfts EXCEPT ![token_id].metadata.current_media_index =
                         AdvanceIndex(@, media_len)]
            index == nfts1[token_id].metadata.current_media_index
        IN  IF saturating_sub(updates_count, 1) # 0
            THEN IF ~send_ok
                 THEN [err |-> "Error in sending message", nfts |-> nfts1,
                       sent |-> <<>>, ret |-> 0]
                 ELSE [err |-> "ok", nfts |-> nfts1,
                       sent |-> <<DelayedMessage(ProgramId,
                                    Request(token_id, owner, update_period,
                                            updates_count - 1),
                                    saturating_sub(gas_available, GasReserve),
                                    0, update_period)>>,
                       ret |-> index]
            ELSE [err |-> "ok", nfts |-> nfts1, sent |-> <<>>, ret |-> index]

\* start_metadata_update without the check of updates_count
start_metadata_update_count_unchecked(s, msg_src, updates_count, update_period_in_blocks, token_id, send_ok, emit_ok) ==
    IF update_period_in_blocks = 0
    THEN Panic(s, "Updates period cannot be zero")
    ELSE
    LET r == start_metadata_updates(s.gas_for_one_time_updating, s.nfts,
                 token_id, msg_src, updates_count, update_period_in_blocks,
                 send_ok)
        s1 == [s EXCEPT !.nfts = r.nfts]
    IN  IF r.err # "ok" THEN Panic(s1, r.err)
        ELSE IF ~emit_ok THEN Panic(s1, "Notification Error")
        ELSE Ok(s1, r.sent, token_id)

\* Service::start_metadata_update
start_metadata_update(s, msg_src, updates_count, update_period_in_blocks, token_id, send_ok, emit_ok) ==
    IF updates_count = 0 THEN Panic(s, "Updates count cannot be zero")
    ELSE IF update_period_in_blocks = 0
    THEN Panic(s, "Updates period cannot be zero")
    ELSE
    LET r == start_metadata_updates(s.gas_for_one_time_updating, s.nfts,
                 token_id, msg_src, updates_count, update_period_in_blocks,
                 send_ok)
        s1 == [s EXCEPT !.nfts = r.nfts]
    IN  IF r.err # "ok" THEN Panic(s1, r.err)
        ELSE IF ~emit_ok THEN Panic(s1, "Notification Error")
        ELSE Ok(s1, r.sent, token_id)

\* update_metadata without the check of msg::source()
update_metadata_unguarded(s, source, token_id, owner, update_period, updates_count, gas_available, send_ok, emit_ok) ==
    LET r == updates_metadata(s.nfts, token_id, owner, update_period,
                 updates_count, gas_available, send_ok)
        s1 == [s EXCEPT !.nfts = r.nfts]
    IN  IF r.err # "ok" THEN Panic(s1, r.err)
        ELSE IF ~emit_ok THEN Panic(s1, "Notification Error")
        ELSE Ok(s1, r.sent, r.ret)

\* Service::update_metadata
update_metadata(s, source, token_id, owner, update_period, updates_count, gas_available, send_ok, emit_ok) ==
    IF source # ProgramId
    THEN Panic(s, "This message can only be sent by the programme")
    ELSE
    LET r == updates_metadata(s.nfts, token_id, owner, update_period,
                 updates_count, gas_available, send_ok)
        s1 == [s EXCEPT !.nfts = r.nfts]
    IN  IF r.err # "ok" THEN Panic(s1, r.err)
        ELSE IF ~emit_ok THEN Panic(s1, "Notification Error")
        ELSE Ok(s1, r.sent, r.ret)

\* the route of the program's only service: #[route("Service")]
ServiceRoute == EncodeStr("Service")
\* the route of update_metadata inside the service
UpdateMetadataRoute == EncodeStr("UpdateMetadata")

\* the program's entry point on a message whose payload is `payload`: the
\* payload must start with the service route, then a method route; anything
\* else is an unknown request and panics
handle(s, source, payload, gas_available, send_ok, emit_ok) ==
    IF payload[1] = ServiceRoute /\ payload[2] = UpdateMetadataRoute
    THEN update_metadata(s, source, payload[3].token_id, payload[3].owner,
             payload[3].update_period, payload[3].updates_count,
             gas_available, send_ok, emit_ok)
    ELSE Panic(s, "Unknown request")

----------------------------------------------------------------------------
(* The state machine *)

\* gas_for_one_time_updating values the program is seeded with: one whose
\* product with MaxCount fits the u64, one whose product does not
GasChoices == {1, U64Max - 1}

\* a delayed message as the host holds it, with the history of its chain:
\* k the updates_count of the start call, done the advances performed so far,
\* changed whether the token changed hands (or was burned) while a message of
\* the chain was waiting
Held(message, k, done, changed) ==
    [msg |-> message, k |-> k, done |-> done, changed |-> changed]

NoChain == [k |-> 0, done |-> 0, changed |-> FALSE]

\* `last` while the program waits for its next message
Idle == [op |-> "idle", source |-> "", args |-> <<>>, err |-> "ok",
         sent |-> <<>>, ret |-> 0, chain |-> NoChain, dirty |-> FALSE]

\* what `last` records of an invocation that started with memory pre; dirty
\* tells whether the body had written to the memory when it ended
Log(op, source, args, pre, run, chain) ==
    [op |-> op, source |-> source, args |-> args, err |-> run.err,
     sent |-> IF run.err = "ok" THEN run.sent ELSE <<>>,
     ret |-> run.ret, chain |-> chain, dirty |-> run.st # pre]

\* the bag of the messages a run sent, each with the chain history
SentBag(run, k, done, changed) ==
    IF run.err = "ok" /\ run.sent # <<>>
    THEN SetToBag({Held(run.sent[1], k, done, changed)})
    ELSE EmptyBag

\* the held messages about token id are marked: its owner changed
MarkChanged(bag, id) ==
    LET mark(e) == IF e.msg.payload[3].token_id = id
                   THEN [e EXCEPT !.changed = TRUE] ELSE e
        marked == {mark(e) : e \in BagToSet(bag)}
    IN  [m \in marked |->
            LET from == {e \in BagToSet(bag) : mark(e) = m}
                count[S \in SUBSET from] ==
                    IF S = {} THEN 0
                    ELSE LET e == CHOOSE x \in S : TRUE
                         IN  bag[e] + count[S \ {e}]
            IN  count[from]]

\* ActorId::zero()
Zero == "zero"
\* the admin Program::new is called with
SeedAdmins == {Zero, "admin"}

\* VnftState::init
init(admin, main_contract, gas_for_one_time_updating) ==
    [admin |-> admin,
     nfts |-> <<>>,
     owner_nfts |-> <<>>,
     next_id |-> 1,
     main_contract |-> main_contract,
     gas_for_one_time_updating |-> gas_for_one_time_updating]

\* seed without the check of the admin
seed_unchecked(admin, main_contract, gas_for_one_time_updating) ==
    Ok(init(admin, main_contract, gas_for_one_time_updating), <<>>, 0)
\* Service::seed; before it VNFT_STATE is None
seed(admin, main_contract, gas_for_one_time_updating) ==
    IF admin = Zero THEN Panic(None, "Admin cannot be zero")
    ELSE Ok(init(admin, main_contract, gas_for_one_time_updating), <<>>, 0)

\* Program::new -> Service::seed -> VnftState::init: the program exists only
\* when its constructor did not panic
\* no MainContract call has been handled yet
MainIdle == [op |-> "idle", source |-> None, err |-> "ok"]

\* the last successful keyring call of every user: none yet
NoKeyCalls == [u \in Users |-> "none"]

Init ==
    /\ \E admin \in SeedAdmins, gas \in GasChoices,
          main_contract \in {None} \cup Users :
          LET run == seed(admin, main_contract, gas)
          IN  run.err = "ok" /\ VNFT_STATE = run.st
    /\ mailbox = EmptyBag
    /\ last = Idle
    /\ issued = <<>>
    /\ MAIN_CONTRACT_STATE = None
    /\ main_last = MainIdle
    /\ key_calls = NoKeyCalls

Mint(caller, to, metadata, emit_ok) ==
    LET run == mint(VNFT_STATE, caller, to, metadata, emit_ok)
    IN  /\ last = Idle
        /\ VNFT_STATE' = Commit(VNFT_STATE, run)
        /\ issued' = IF run.err = "ok" THEN Append(issued, run.ret) ELSE issued
        /\ last' = Log("mint", caller, [to |-> to, metadata |-> metadata],
                       VNFT_STATE, run, NoChain)
        /\ UNCHANGED mailbox
        /\ UNCHANGED main_vars

Burn(caller, id, emit_ok) ==
    LET run == burn(VNFT_STATE, caller, id, emit_ok)
    IN  /\ last = Idle
        /\ VNFT_STATE' = Commit(VNFT_STATE, run)
        /\ mailbox' = IF run.err = "ok" THEN MarkChanged(mailbox, id)
                      ELSE mailbox
        /\ last' = Log("burn", caller, [id |-> id], VNFT_STATE, run, NoChain)
        /\ UNCHANGED issued
        /\ UNCHANGED main_vars

Transfer(caller, id, to, emit_ok) ==
    LET run == transfer(VNFT_STATE, caller, id, to, emit_ok)
    IN  /\ last = Idle
        /\ VNFT_STATE' = Commit(VNFT_STATE, run)
        /\ mailbox' = IF run.err = "ok" /\ to # caller
                      THEN MarkChanged(mailbox, id) ELSE mailbox
        /\ last' = Log("transfer", caller, [id |-> id, to |-> to], VNFT_STATE, run,
                       NoChain)
        /\ UNCHANGED issued
        /\ UNCHANGED main_vars

SetMainContract(caller, main_contract, emit_ok) ==
    LET run == set_main_contract(VNFT_STATE, caller, main_contract, emit_ok)
    IN  /\ last = Idle
        /\ VNFT_STATE' = Commit(VNFT_STATE, run)
        /\ last' = Log("set_main_contract", caller,
                       [main_contract |-> main_contract], VNFT_STATE, run, NoChain)
        /\ UNCHANGED <<mailbox, issued>>
        /\ UNCHANGED main_vars

StartMetadataUpdate(caller, updates_count, update_period, token_id, send_ok, emit_ok) ==
    LET run == start_metadata_update(VNFT_STATE, caller, updates_count,
                   update_period, token_id, send_ok, emit_ok)
    IN  /\ last = Idle
        /\ BagCardinality(mailbox (+) SentBag(run, updates_count, 1, FALSE))
              <= MaxInFlight
        /\ VNFT_STATE' = Commit(VNFT_STATE, run)
        /\ mailbox' = mailbox (+) SentBag(run, updates_count, 1, FALSE)
        /\ last' = Log("start_metadata_update", caller,
                       [updates_count |-> updates_count,
                        update_period |-> update_period,
                        token_id |-> token_id], VNFT_STATE, run, NoChain)
        /\ UNCHANGED issued
        /\ UNCHANGED main_vars

\* a user calls update_metadata
UpdateMetadata(caller, token_id, owner, update_period, updates_count, gas_available, send_ok, emit_ok) ==
    LET run == update_metadata(VNFT_STATE, caller, token_id, owner,
                   update_period, updates_count, gas_available, send_ok,
                   emit_ok)
    IN  /\ last = Idle
        /\ BagCardinality(mailbox (+) SentBag(run, updates_count, 1, FALSE))
              <= MaxInFlight
        /\ VNFT_STATE' = Commit(VNFT_STATE, run)
        /\ mailbox' = mailbox (+) SentBag(run, updates_count, 1, FALSE)
        /\ last' = Log("update_metadata", caller,
                       [token_id |-> token_id, owner |-> owner,
                        update_period |-> update_period,
                        updates_count |-> updates_count], VNFT_STATE, run, NoChain)
        /\ UNCHANGED issued
        /\ UNCHANGED main_vars

\* the host delivers a delayed message to the program
Deliver(held, gas_available, send_ok, emit_ok) ==
    LET run == handle(VNFT_STATE, ProgramId, held.msg.payload, gas_available,
                      send_ok, emit_ok)
        done == IF run.err = "ok" THEN held.done + 1 ELSE held.done
    IN  /\ last = Idle
        /\ VNFT_STATE' = Commit(VNFT_STATE, run)
        /\ mailbox' = (mailbox (-) SetToBag({held}))
                      (+) SentBag(run, held.k, done, held.changed)
        /\ last' = Log("deliver", ProgramId, held.msg.payload[3], VNFT_STATE, run,
                       [k |-> held.k, done |-> done,
                        changed |-> held.changed])
        /\ UNCHANGED issued
        /\ UNCHANGED main_vars

\* the invocation is over: the program waits for its next message
Reply ==
    /\ last # Idle
    /\ last' = Idle
    /\ UNCHANGED <<VNFT_STATE, mailbox, issued>>
    /\ UNCHANGED main_vars

Next ==
    \/ \E caller \in Users, to \in Users, metadata \in MetadataChoices,
          host_ok \in HostChoices :
          Mint(caller, to, metadata, host_ok)
    \/ \E caller \in Users, id \in IdChoices, host_ok \in HostChoices :
          Burn(caller, id, host_ok)
    \/ \E caller \in Users, id \in IdChoices, to \in Users,
          host_ok \in HostChoices :
          Transfer(caller, id, to, host_ok)
    \/ \E caller \in Users, main_contract \in Users, host_ok \in HostChoices :
          SetMainContract(caller, main_contract, host_ok)
    \/ \E caller \in Users, updates_count \in CountChoices,
          update_period \in PeriodChoices, token_id \in IdChoices,
          host_ok \in HostChoices :
          StartMetadataUpdate(caller, updates_count, update_period, token_id,
                              host_ok, host_ok)
    \/ \E caller \in Users, request \in ForgedRequests,
          gas_available \in GasAvailableChoices, host_ok \in HostChoices :
          UpdateMetadata(caller, request.token_id, request.owner,
                         request.update_period, request.updates_count,
                         gas_available, host_ok, host_ok)
    \/ \E held \in BagToSet(mailbox), gas_available \in GasAvailableChoices,
          host_ok \in HostChoices :
          Deliver(held, gas_available, host_ok, host_ok)
    \/ Reply

Spec == Init /\ [][Next]_vars

\* a call of start_metadata_update, by anyone
StartStep ==
    \E caller \in Users, updates_count \in CountChoices,
       update_period \in PeriodChoices, token_id \in IdChoices,
       host_ok \in HostChoices :
       StartMetadataUpdate(caller, updates_count, update_period, token_id,
                           host_ok, host_ok)
\* the delivery of some held message
DeliverStep ==
    \E held \in BagToSet(mailbox), gas_available \in GasAvailableChoices,
       host_ok \in HostChoices :
       Deliver(held, gas_available, host_ok, host_ok)

\* the host delivers every delayed message it holds (after its delay, however
\* many other messages arrive in between) and ends every invocation
LiveSpec == Init /\ [][Next]_vars /\ SF_vars(DeliverStep) /\ WF_vars(Reply)

----------------------------------------------------------------------------
(* The MainContract program: run statistics and the keyring *)

\* the anti-cheat limits of finish_run and run_finished
MaxMonsters == 1000
MaxItems == 100
MaxSurvivalTime == 86400000

\* inputs: a value within each limit and one just above it
MonsterChoices == {0, MaxMonsters + 1}
ItemsChoices == {<<>>, [i \in 1..(MaxItems + 1) |-> i]}
SurvivalChoices == {0, MaxSurvivalTime + 1}
RunStatsChoices == [user : Users, monsters_defeated : MonsterChoices, items_found : ItemsChoices, new_items_selected : ItemsChoices, survival_time : SurvivalChoices]
PublicKeyChoices == {<<1>>, <<2>>}
KeyMetadataChoices == {None, "label"}

RunStats(user, monsters_defeated, items_found, new_items_selected, survival_time) ==
    [user |-> user, monsters_defeated |-> monsters_defeated,
     items_found |-> items_found, new_items_selected |-> new_items_selected,
     survival_time |-> survival_time]

KeyringEntry(user, public_key, metadata) ==
    [user |-> user, public_key |-> public_key, metadata |-> metadata]

\* MainContractState::init: the deployer is the only admin, the maps are empty
main_init(source) ==
    [admins |-> <<source>>, user_nft_selections |-> <<>>,
     last_run_stats |-> <<>>, keyring |-> <<>>]

\* Service::seed of the MainContract
main_seed(source) == Ok(main_init(source), <<>>, None)

finish_run(s, user, monsters_defeated, items_found, new_items_selected, survival_time, emit_ok) ==
    IF monsters_defeated > MaxMonsters
    THEN Panic(s, "Invalid stats: too many monsters defeated")
    ELSE IF Len(items_found) > MaxItems
    THEN Panic(s, "Invalid stats: too many items found")
    ELSE IF Len(new_items_selected) > MaxItems
    THEN Panic(s, "Invalid stats: too many new items selected")
    ELSE IF survival_time > MaxSurvivalTime
    THEN Panic(s, "Invalid stats: survival time too high")
    ELSE LET stats == RunStats(user, monsters_defeated, items_found,
                               new_items_selected, survival_time)
             s1 == [s EXCEPT !.last_run_stats = MapInsert(@, user, stats)]
         IN  IF ~emit_ok THEN Panic(s1, "Failed to emit event")
             ELSE Ok(s1, <<>>, stats)

\* the record is stored as the caller sent it, its user field included
run_finished(s, user, new_status) ==
    IF new_status.monsters_defeated > MaxMonsters
    THEN Panic(s, "Invalid stats: too many monsters defeated")
    ELSE IF Len(new_status.items_found) > MaxItems
    THEN Panic(s, "Invalid stats: too many items found")
    ELSE IF Len(new_status.new_items_selected) > MaxItems
    THEN Panic(s, "Invalid stats: too many new items selected")
    ELSE IF new_status.survival_time > MaxSurvivalTime
    THEN Panic(s, "Invalid stats: survival time too high")
    ELSE LET s1 == [s EXCEPT !.last_run_stats = MapInsert(@, user, new_status)]
         IN  Ok(s1, <<>>, new_status)

add_key_unchecked(s, user, public_key, metadata, emit_ok) ==
    LET entry == KeyringEntry(user, public_key, metadata)
        s1 == [s EXCEPT !.keyring = MapInsert(@, user, entry)]
    IN  IF ~emit_ok THEN Panic(s1, "Failed to emit event")
        ELSE Ok(s1, <<>>, "KeyAdded")

add_key(s, user, public_key, metadata, emit_ok) ==
    IF user \in DOMAIN s.keyring
    THEN Panic(s, "Key already exists for user")
    ELSE LET entry == KeyringEntry(user, public_key, metadata)
             s1 == [s EXCEPT !.keyring = MapInsert(@, user, entry)]
         IN  IF ~emit_ok THEN Panic(s1, "Failed to emit event")
             ELSE Ok(s1, <<>>, "KeyAdded")

remove_key(s, user, emit_ok) ==
    IF user \notin DOMAIN s.keyring
    THEN Panic(s, "No key exists for user")
    ELSE LET s1 == [s EXCEPT !.keyring = MapRemove(@, user)]
         IN  IF ~emit_ok THEN Panic(s1, "Failed to emit event")
             ELSE Ok(s1, <<>>, "KeyRemoved")

update_key(s, user, public_key, metadata, emit_ok) ==
    IF user \notin DOMAIN s.keyring
    THEN Panic(s, "No key exists for user")
    ELSE LET entry == KeyringEntry(user, public_key, metadata)
             s1 == [s EXCEPT !.keyring = MapInsert(@, user, entry)]
         IN  IF ~emit_ok THEN Panic(s1, "Failed to emit event")
             ELSE Ok(s1, <<>>, "KeyUpdated")

\* Program::new of the MainContract; the vNFT program is not part of this run
MainInit ==
    /\ \E source \in Users : MAIN_CONTRACT_STATE = main_seed(source).st
    /\ main_last = MainIdle
    /\ key_calls = NoKeyCalls
    /\ VNFT_STATE = None
    /\ mailbox = EmptyBag
    /\ last = Idle
    /\ issued = <<>>

\* the outcome of one MainContract invocation
MainLog(op, source, run) == [op |-> op, source |-> source, err |-> run.err]

\* a successful keyring call becomes the caller's last successful one
KeyCalled(op, source, run) ==
    IF run.err = "ok" THEN [key_calls EXCEPT ![source] = op] ELSE key_calls

FinishRun(user, monsters_defeated, items_found, new_items_selected, survival_time, emit_ok) ==
    LET run == finish_run(MAIN_CONTRACT_STATE, user, monsters_defeated, items_found,
                          new_items_selected, survival_time, emit_ok)
    IN  /\ MAIN_CONTRACT_STATE' = Commit(MAIN_CONTRACT_STATE, run)
        /\ main_last' = MainLog("finish_run", user, run)
        /\ UNCHANGED key_calls
        /\ UNCHANGED vnft_vars

RunFinished(user, new_status) ==
    LET run == run_finished(MAIN_CONTRACT_STATE, user, new_status)
    IN  /\ MAIN_CONTRACT_STATE' = Commit(MAIN_CONTRACT_STATE, run)
        /\ main_last' = MainLog("run_finished", user, run)
        /\ UNCHANGED key_calls
        /\ UNCHANGED vnft_vars

AddKey(user, public_key, metadata, emit_ok) ==
    LET run == add_key(MAIN_CONTRACT_STATE, user, public_key, metadata, emit_ok)
    IN  /\ MAIN_CONTRACT_STATE' = Commit(MAIN_CONTRACT_STATE, run)
        /\ main_last' = MainLog("add_key", user, run)
        /\ key_calls' = KeyCalled("add_key", user, run)
        /\ UNCHANGED vnft_vars

RemoveKey(user, emit_ok) ==
    LET run == remove_key(MAIN_CONTRACT_STATE, user, emit_ok)
    IN  /\ MAIN_CONTRACT_STATE' = Commit(MAIN_CONTRACT_STATE, run)
        /\ main_last' = MainLog("remove_key", user, run)
        /\ key_calls' = KeyCalled("remove_key", user, run)
        /\ UNCHANGED vnft_vars

UpdateKey(user, public_key, metadata, emit_ok) ==
    LET run == update_key(MAIN_CONTRACT_STATE, user, public_key, metadata, emit_ok)
    IN  /\ MAIN_CONTRACT_STATE' = Commit(MAIN_CONTRACT_STATE, run)
        /\ main_last' = MainLog("update_key", user, run)
        /\ key_calls' = KeyCalled("update_key", user, run)
        /\ UNCHANGED vnft_vars

MainNext ==
    \/ \E user \in Users, monsters_defeated \in MonsterChoices,
          items_found \in ItemsChoices, new_items_selected \in ItemsChoices,
          survival_time \in SurvivalChoices, emit_ok \in HostChoices :
          FinishRun(user, monsters_defeated, items_found, new_items_selected,
                    survival_time, emit_ok)
    \/ \E user \in Users, new_status \in RunStatsChoices :
          RunFinished(user, new_status)
    \/ \E user \in Users, public_key \in PublicKeyChoices,
          metadata \in KeyMetadataChoices, emit_ok \in HostChoices :
          AddKey(user, public_key, metadata, emit_ok)
    \/ \E user \in Users, emit_ok \in HostChoices : RemoveKey(user, emit_ok)
    \/ \E user \in Users, public_key \in PublicKeyChoices,
          metadata \in KeyMetadataChoices, emit_ok \in HostChoices :
          UpdateKey(user, public_key, metadata, emit_ok)

MainSpec == MainInit /\ [][MainNext]_vars

----------------------------------------------------------------------------
(* Helpers of the properties *)

\* the elements of a Vec
Range(seq) == {seq[i] : i \in DOMAIN seq}
\* the ids owner_nfts lists for a principal (tokens_for_owner)
Owned(owner_nfts, p) ==
    IF p \in DOMAIN owner_nfts THEN Range(owner_nfts[p]) ELSE {}
\* every principal the state mentions
Principals == Users \cup {ProgramId} \cup DOMAIN VNFT_STATE.owner_nfts
                    \cup {VNFT_STATE.nfts[id].owner : id \in DOMAIN VNFT_STATE.nfts}
\* the panic texts of update_metadata's checks on the token
TokenErrors == {"TokenDoesNotExist", "DeniedAccess"}
\* the number of held messages about token id
InFlight(bag, id) ==
    BagCardinality([e \in {x \in BagToSet(bag) : x.msg.payload[3].token_id = id}
                       |-> bag[e]])
\* the panic texts of a message the host did not accept
HostErrors ==
    {"Notification failure", "Notification Error", "Error in sending message"}
\* can_mint: the caller is the admin or the linked main contract of state s
CanMint(s, caller) ==
    caller = s.admin \/ (s.main_contract # None /\ s.main_contract = caller)

----------------------------------------------------------------------------
(* C1 *)

\* C1: in every reachable state, for every principal p and id, id is in
\* owner_nfts[p] iff nfts[id] exists with owner p, and no owner's list holds
\* the same id twice.
C1_OwnerIndexConsistent ==
    /\ \A p \in Principals, id \in 1..U64Max :
          id \in Owned(VNFT_STATE.owner_nfts, p)
          <=> (id \in DOMAIN VNFT_STATE.nfts /\ VNFT_STATE.nfts[id].owner = p)
    /\ \A p \in DOMAIN VNFT_STATE.owner_nfts :
          \A i, j \in DOMAIN VNFT_STATE.owner_nfts[p] :
             i # j => VNFT_STATE.owner_nfts[p][i] # VNFT_STATE.owner_nfts[p][j]

\* a transfer to oneself succeeded while the owner holds two tokens
C1_Witness ==
    /\ last.op = "transfer" /\ last.err = "ok"
    /\ last.args.to = last.source
    /\ Len(VNFT_STATE.owner_nfts[last.source]) = 2

----------------------------------------------------------------------------
(* C2 *)

\* C2: the ids returned by successful mint calls are strictly increasing,
\* start at 1 and never repeat, also across burns, and next_id is strictly
\* greater than every id ever issued.
C2_IdsFresh ==
    /\ issued # <<>> => issued[1] = 1
    /\ \A i, j \in DOMAIN issued : i < j => issued[i] < issued[j]
    /\ \A i \in DOMAIN issued : issued[i] < VNFT_STATE.next_id

\* token 1 was burned and the next mint returned 2
C2_Witness ==
    /\ last.op = "mint" /\ last.err = "ok" /\ last.ret = 2
    /\ issued = <<1, 2>>
    /\ 1 \notin DOMAIN VNFT_STATE.nfts

----------------------------------------------------------------------------
(* C3 *)

\* C3: in every reachable state every stored token with a non-empty media
\* list has current_media_index < len(media), as minted and after any number
\* of start/advance steps.
C3_IndexInRange ==
    \A id \in DOMAIN VNFT_STATE.nfts :
       LET metadata == VNFT_STATE.nfts[id].metadata
       IN  Len(metadata.media) > 0
           => metadata.current_media_index < Len(metadata.media)

----------------------------------------------------------------------------
(* C4 *)

\* C4: a chain started with n = k performs exactly k advances when the
\* token's ownership never changes and no step is rejected by
\* update_metadata: after the delivery of a continuation carrying r the chain
\* has performed k - (r - 1) advances, and the step has re-armed exactly one
\* continuation carrying r - 1 when r - 1 > 0 and none when r - 1 = 0.
C4_ChainPerformsAll ==
    (/\ last.op = "deliver"
     /\ ~last.chain.changed
     /\ last.err \notin TokenErrors
                        \cup {"This message can only be sent by the programme",
                              "Error in sending message", "Notification Error"})
    => LET r == last.args.updates_count
       IN  /\ last.chain.done = last.chain.k - (r - 1)
           /\ IF r - 1 > 0
              THEN /\ Len(last.sent) = 1
                   /\ last.sent[1].payload[3].updates_count = r - 1
              ELSE last.sent = <<>>

----------------------------------------------------------------------------
(* C5 *)

\* C5: when the token of a chain started with n = k >= 2 changed hands or
\* was burned while a continuation of the chain was waiting, the chain has
\* performed fewer than k advances after that continuation was delivered.
C5_InterruptedFallsShort ==
    (last.op = "deliver" /\ last.chain.changed /\ last.chain.k >= 2)
    => last.chain.done < last.chain.k

\* a continuation was delivered after its token had changed hands
C5_Witness ==
    /\ last.op = "deliver" /\ last.chain.changed /\ last.chain.k >= 2
    /\ last.chain.done < last.chain.k

----------------------------------------------------------------------------
(* C6 *)

\* C6: the delivery of a continuation whose token no longer exists, or is
\* owned by someone else than the message records, fails with
\* TokenDoesNotExist / DeniedAccess, leaves the whole state unchanged and
\* schedules no further continuation.
C6_StaleContinuationDenied ==
    [][(/\ last'.op = "deliver"
        /\ \/ last'.args.token_id \notin DOMAIN VNFT_STATE.nfts
           \/ VNFT_STATE.nfts[last'.args.token_id].owner # last'.args.owner)
       => /\ last'.err \in TokenErrors
          /\ VNFT_STATE' = VNFT_STATE
          /\ last'.sent = <<>>
          /\ BagCardinality(mailbox') = BagCardinality(mailbox) - 1]_vars

----------------------------------------------------------------------------
(* C7 *)

\* C7: a successful start_metadata_update(n, p, token) advances the index
\* once, whatever n is, and sends exactly one delayed message to the program
\* itself, carrying (token, caller, p, n - 1) with delay p, when n - 1 > 0,
\* and none when n = 1.
C7_StartAdvancesOnceArmsOne ==
    [][(last'.op = "start_metadata_update" /\ last'.err = "ok")
       => LET a == last'.args
              old == VNFT_STATE.nfts[a.token_id].metadata
              new == VNFT_STATE'.nfts[a.token_id].metadata
          IN  /\ a.updates_count >= 1
              /\ old.current_media_index < U64Max
                 => new.current_media_index
                    = (old.current_media_index + 1) % Len(old.media)
              /\ new.current_media_index < Len(old.media)
              /\ IF a.updates_count - 1 > 0
                 THEN /\ Len(last'.sent) = 1
                      /\ last'.sent[1].destination = ProgramId
                      /\ last'.sent[1].delay = a.update_period
                      /\ last'.sent[1].payload[3]
                         = [token_id |-> a.token_id, owner |-> last'.source,
                            update_period |-> a.update_period,
                            updates_count |-> a.updates_count - 1]
                      /\ mailbox' = mailbox
                           (+) SetToBag({Held(last'.sent[1], a.updates_count,
                                              1, FALSE)})
                 ELSE last'.sent = <<>> /\ mailbox' = mailbox]_vars

\* a start with n = 2 succeeded on a token whose index was MaxMedia - 1
C7_Witness ==
    /\ last.op = "start_metadata_update" /\ last.err = "ok"
    /\ last.args.updates_count = 2
    /\ Len(last.sent) = 1
    /\ VNFT_STATE.nfts[last.args.token_id].metadata.current_media_index = 0
    /\ BagCardinality(mailbox) = 2

----------------------------------------------------------------------------
(* C8 *)

\* C8: update_metadata called by anyone but the program itself is rejected,
\* leaves the whole state unchanged and schedules nothing; no call of
\* update_metadata by a user changes a token.
C8_OnlyProgramUpdates ==
    [][(last'.op = "update_metadata" /\ last'.source # ProgramId)
       => /\ last'.err = "This message can only be sent by the programme"
          /\ VNFT_STATE' = VNFT_STATE
          /\ mailbox' = mailbox
          /\ last'.sent = <<>>]_vars

\* a user called update_metadata for a token that the recorded owner holds
\* and that has media to advance, and was rejected
C8_Witness ==
    /\ last.op = "update_metadata" /\ last.source \in Users
    /\ last.err # "ok"
    /\ last.args.token_id \in DOMAIN VNFT_STATE.nfts
    /\ VNFT_STATE.nfts[last.args.token_id].owner = last.args.owner
    /\ VNFT_STATE.nfts[last.args.token_id].metadata.media # <<>>

----------------------------------------------------------------------------
(* C9 *)

\* C9 as stated: after any successful transfer(id, to) by the owner `from`,
\* nfts[id].owner = to, id is not in owner_nfts[from] and id is in
\* owner_nfts[to]; a transfer by anyone else or of a missing id fails and
\* changes nothing.
C9_TransferAsStated ==
    [][last'.op = "transfer"
       => LET id == last'.args.id
              to == last'.args.to
              from == last'.source
          IN  IF id \in DOMAIN VNFT_STATE.nfts
                 /\ VNFT_STATE.nfts[id].owner = from
              THEN last'.err = "ok"
                   => /\ VNFT_STATE'.nfts[id].owner = to
                      /\ id \notin Owned(VNFT_STATE'.owner_nfts, from)
                      /\ id \in Owned(VNFT_STATE'.owner_nfts, to)
              ELSE /\ last'.err # "ok"
                   /\ VNFT_STATE' = VNFT_STATE
                   /\ mailbox' = mailbox]_vars

\* C9 amended: as stated, but id leaves owner_nfts[from] only when
\* to # from; a transfer to oneself keeps the id in the owner's list.
C9_Transfer ==
    [][last'.op = "transfer"
       => LET id == last'.args.id
              to == last'.args.to
              from == last'.source
          IN  IF id \in DOMAIN VNFT_STATE.nfts
                 /\ VNFT_STATE.nfts[id].owner = from
              THEN last'.err = "ok"
                   => /\ VNFT_STATE'.nfts[id].owner = to
                      /\ to # from
                         => id \notin Owned(VNFT_STATE'.owner_nfts, from)
                      /\ id \in Owned(VNFT_STATE'.owner_nfts, to)
              ELSE /\ last'.err # "ok"
                   /\ VNFT_STATE' = VNFT_STATE
                   /\ mailbox' = mailbox]_vars

\* the owner transferred a token to someone else, successfully
C9_Witness ==
    /\ last.op = "transfer" /\ last.err = "ok"
    /\ last.args.to # last.source
    /\ VNFT_STATE.nfts[last.args.id].owner = last.args.to

----------------------------------------------------------------------------
(* C10 *)

\* C10: after a successful burn(id) by the owner, id is absent from nfts and
\* from owner_nfts[owner]; a burn of a missing id fails with "NFT not found"
\* and a burn by a non-owner fails, each leaving the state unchanged.
C10_Burn ==
    [][last'.op = "burn"
       => LET id == last'.args.id
              caller == last'.source
          IN  IF id \notin DOMAIN VNFT_STATE.nfts
              THEN /\ last'.err = "NFT not found"
                   /\ VNFT_STATE' = VNFT_STATE
                   /\ mailbox' = mailbox
              ELSE IF VNFT_STATE.nfts[id].owner # caller
              THEN /\ last'.err = "Only owner can burn"
                   /\ VNFT_STATE' = VNFT_STATE
                   /\ mailbox' = mailbox
              ELSE last'.err = "ok"
                   => /\ id \notin DOMAIN VNFT_STATE'.nfts
                      /\ id \notin Owned(VNFT_STATE'.owner_nfts, caller)]_vars

\* the owner burned one of two tokens they held
C10_Witness ==
    /\ last.op = "burn" /\ last.err = "ok"
    /\ last.args.id \notin DOMAIN VNFT_STATE.nfts
    /\ Len(VNFT_STATE.owner_nfts[last.source]) = 1

----------------------------------------------------------------------------
(* C11 *)

\* C11 as stated: mint succeeds if and only if the caller is the admin or the
\* linked main contract and next_id does not overflow; a mint by any other
\* caller fails and leaves next_id, nfts and owner_nfts unchanged.
C11_MintAsStated ==
    [][last'.op = "mint"
       => LET can == CanMint(VNFT_STATE, last'.source)
              fits == VNFT_STATE.next_id < U64Max
          IN  /\ last'.err = "ok" <=> (can /\ fits)
              /\ ~can => /\ last'.err # "ok"
                         /\ VNFT_STATE'.next_id = VNFT_STATE.next_id
                         /\ VNFT_STATE'.nfts = VNFT_STATE.nfts
                         /\ VNFT_STATE'.owner_nfts = VNFT_STATE.owner_nfts]_vars

\* C11 amended: mint succeeds if and only if the caller is the admin or the
\* linked main contract, next_id does not overflow and the Minted event is
\* emitted; a mint by any other caller fails as not authorized and leaves
\* next_id, nfts and owner_nfts unchanged.
C11_Mint ==
    [][last'.op = "mint"
       => LET can == CanMint(VNFT_STATE, last'.source)
              fits == VNFT_STATE.next_id < U64Max
          IN  /\ last'.err = "ok"
                 <=> (can /\ fits /\ last'.err # "Notification failure")
              /\ (can /\ ~fits) => last'.err = "Overflow"
              /\ ~can => /\ last'.err = "Not authorized"
                         /\ VNFT_STATE'.next_id = VNFT_STATE.next_id
                         /\ VNFT_STATE'.nfts = VNFT_STATE.nfts
                         /\ VNFT_STATE'.owner_nfts = VNFT_STATE.owner_nfts]_vars

\* the linked main contract, which is not the admin, minted a token
C11_Witness ==
    /\ last.op = "mint" /\ last.err = "ok"
    /\ last.source # VNFT_STATE.admin
    /\ last.source = VNFT_STATE.main_contract

----------------------------------------------------------------------------
(* C12 *)

\* C12: start_metadata_update is rejected, with the state unchanged and
\* nothing scheduled, when updates_count = 0, when update_period = 0, when
\* the token is absent (TokenDoesNotExist), when the caller is not its owner
\* (DeniedAccess) and when its media list is empty (TokenDoesNotExist); the
\* count and the period are checked, in that order, before the token is
\* looked up.
C12_StartRejected ==
    [][last'.op = "start_metadata_update"
       => LET a == last'.args
              rejected(text) == /\ last'.err = text
                                /\ VNFT_STATE' = VNFT_STATE
                                /\ mailbox' = mailbox
                                /\ last'.sent = <<>>
          IN  IF a.updates_count = 0
              THEN rejected("Updates count cannot be zero")
              ELSE IF a.update_period = 0
              THEN rejected("Updates period cannot be zero")
              ELSE IF a.token_id \notin DOMAIN VNFT_STATE.nfts
              THEN rejected("TokenDoesNotExist")
              ELSE IF VNFT_STATE.nfts[a.token_id].owner # last'.source
              THEN rejected("DeniedAccess")
              ELSE IF VNFT_STATE.nfts[a.token_id].metadata.media = <<>>
              THEN rejected("TokenDoesNotExist")
              ELSE TRUE]_vars

\* a start with period 0 for a token that does not exist was rejected for
\* its period, while another token was stored
C12_Witness ==
    /\ last.op = "start_metadata_update"
    /\ last.args.updates_count > 0 /\ last.args.update_period = 0
    /\ last.args.token_id \notin DOMAIN VNFT_STATE.nfts
    /\ last.err = "Updates period cannot be zero"
    /\ VNFT_STATE.nfts # <<>>

----------------------------------------------------------------------------
(* C13 *)

\* C13 as stated: in every operation every step that can fail runs before
\* the first write to the state, so an invocation that failed, also by a
\* failed send or a failed event, had written nothing when it failed.
C13_NoWriteBeforeFailure ==
    last.err # "ok" => ~last.dirty

\* C13 amended: an invocation that failed leaves the state as it was and
\* schedules nothing, because the host discards its memory; the checks of
\* the caller, the arguments and the token run before the first write, and
\* only a failed send or a failed event comes after writes.
C13_FailedInvocationDiscarded ==
    [][(last'.op # "idle" /\ last'.err # "ok")
       => /\ VNFT_STATE' = VNFT_STATE
          /\ issued' = issued
          /\ last'.sent = <<>>
          /\ IF last'.op = "deliver"
             THEN BagCardinality(mailbox') = BagCardinality(mailbox) - 1
             ELSE mailbox' = mailbox
          /\ last'.dirty => last'.err \in HostErrors]_vars

\* a start failed to send its message after it had written the index
C13_Witness ==
    /\ last.op = "start_metadata_update"
    /\ last.err = "Error in sending message"
    /\ last.dirty
    /\ VNFT_STATE.nfts[last.args.token_id].metadata.current_media_index = 0

----------------------------------------------------------------------------
(* C14 *)

\* C14: in every reachable state the host holds at most one continuation
\* per token id, also when the owner calls start_metadata_update again while
\* an earlier chain is pending.
C14_OneJobPerToken ==
    \A id \in 1..U64Max : InFlight(mailbox, id) <= 1

----------------------------------------------------------------------------
(* C15 *)

\* C15: set_main_contract(addr) succeeds only for the admin and then sets
\* main_contract to addr, whatever addr is, leaving the rest of the state;
\* afterwards a mint by addr is authorized and a mint by the address linked
\* before, if it is neither the admin nor addr, is not; a call by anyone
\* else fails and leaves the state unchanged.
C15_SetMainContract ==
    [][last'.op = "set_main_contract"
       => LET addr == last'.args.main_contract
              prev == VNFT_STATE.main_contract
              refused(who) ==
                  \A to \in Users, metadata \in MetadataChoices :
                     mint(VNFT_STATE', who, to, metadata, TRUE).err
                        = "Not authorized"
              admitted(who) ==
                  \A to \in Users, metadata \in MetadataChoices :
                     mint(VNFT_STATE', who, to, metadata, TRUE).err
                        # "Not authorized"
          IN  /\ last'.err = "ok"
                 => /\ last'.source = VNFT_STATE.admin
                    /\ VNFT_STATE' = [VNFT_STATE EXCEPT !.main_contract = addr]
                    /\ admitted(addr)
                    /\ (prev # None /\ prev # VNFT_STATE.admin /\ prev # addr)
                       => refused(prev)
              /\ last'.source # VNFT_STATE.admin
                 => /\ last'.err = "Only admin can set main contract"
                    /\ VNFT_STATE' = VNFT_STATE]_vars

\* the admin replaced the link by their own address: the link changed, and
\* only the admin can mint now
C15_Witness ==
    /\ last.op = "set_main_contract" /\ last.err = "ok" /\ last.dirty
    /\ last.args.main_contract = VNFT_STATE.admin
    /\ VNFT_STATE.main_contract = VNFT_STATE.admin
    /\ \A who \in Users \ {VNFT_STATE.admin} : ~CanMint(VNFT_STATE, who)

----------------------------------------------------------------------------
(* C16 *)

\* C16 as stated: a successful transfer(id, to) with to the current owner
\* is a no-op: the whole state after the call, the order of the owner's ids
\* in owner_nfts included, equals the state before it.
C16_SelfTransferNoOp ==
    [][(last'.op = "transfer" /\ last'.err = "ok"
        /\ last'.args.to = last'.source)
       => VNFT_STATE' = VNFT_STATE]_vars

\* C16 amended: a successful transfer(id, to) with to the current owner
\* leaves nfts and the rest of the state as they were and keeps the owner's
\* ids, but moves id to the end of the owner's list, the other ids keeping
\* their order.
C16_SelfTransfer ==
    [][(last'.op = "transfer" /\ last'.err = "ok"
        /\ last'.args.to = last'.source)
       => LET id == last'.args.id
              from == last'.source
              old == VNFT_STATE.owner_nfts[from]
              new == VNFT_STATE'.owner_nfts[from]
              others(seq) == SelectSeq(seq, LAMBDA x : x # id)
          IN  /\ [VNFT_STATE' EXCEPT !.owner_nfts = VNFT_STATE.owner_nfts]
                 = VNFT_STATE
              /\ DOMAIN VNFT_STATE'.owner_nfts = DOMAIN VNFT_STATE.owner_nfts
              /\ \A p \in DOMAIN VNFT_STATE.owner_nfts \ {from} :
                    VNFT_STATE'.owner_nfts[p] = VNFT_STATE.owner_nfts[p]
              /\ Len(new) = Len(old)
              /\ new[Len(new)] = id
              /\ others(new) = others(old)
              /\ Len(others(old)) = Len(old) - 1]_vars

\* the owner of tokens 1 and 2 transferred token 1 to themselves: it is now
\* the last of their list
C16_Witness ==
    /\ last.op = "transfer" /\ last.err = "ok"
    /\ last.args.to = last.source /\ last.args.id = 1
    /\ VNFT_STATE.owner_nfts[last.source] = <<2, 1>>
    /\ last.dirty

----------------------------------------------------------------------------
(* C17 *)

\* C17: every chain terminates.  Each continuation of a chain started with
\* n carries n minus the advances the chain has performed, at least 1, so
\* the chain sends at most n - 1 continuations; a delivery that re-arms sends
\* the count it received less one; and if from some point on no start is
\* issued, the host eventually holds no continuation, for good.
C17_ChainsTerminate ==
    /\ [](/\ \A e \in BagToSet(mailbox) :
               /\ e.msg.payload[3].updates_count >= 1
               /\ e.done >= 1
               /\ e.msg.payload[3].updates_count = e.k - e.done
          /\ (last.op = "deliver" /\ last.sent # <<>>)
             => last.sent[1].payload[3].updates_count
                = last.args.updates_count - 1)
    /\ (<>[][~StartStep]_vars) => <>[](mailbox = EmptyBag)

\* the last held continuation of a chain started with n >= 2 was delivered
C17_Witness ==
    /\ last.op = "deliver" /\ last.chain.k >= 2
    /\ mailbox = EmptyBag

----------------------------------------------------------------------------
(* C18 *)

\* C18: every successful start or advance step sets current_media_index to
\* (old index + 1) mod len(media), for every old index of the u64 range, the
\* largest u64 and the indexes >= len(media) included, and update_metadata
\* returns the new index.
C18_AdvanceModular ==
    [][(last'.op \in {"start_metadata_update", "deliver", "update_metadata"}
        /\ last'.err = "ok")
       => LET id == last'.args.token_id
              old == VNFT_STATE.nfts[id].metadata
              new == VNFT_STATE'.nfts[id].metadata
          IN  /\ new.current_media_index
                 = (old.current_media_index + 1) % Len(old.media)
              /\ last'.op # "start_metadata_update"
                 => last'.ret = new.current_media_index]_vars

----------------------------------------------------------------------------
(* C19 *)

\* C19: the id of a stored token never changes; its owner changes only by a
\* successful transfer of it; its metadata changes only by a successful
\* start_metadata_update or update_metadata addressed to it, and then only
\* in current_media_index; such a step leaves everything else of the state
\* (other tokens, owner_nfts, next_id, admin, main_contract) unchanged.
C19_Frame ==
    [][/\ \A id \in DOMAIN VNFT_STATE.nfts :
            /\ VNFT_STATE.nfts[id].id = id
            /\ id \in DOMAIN VNFT_STATE'.nfts
               => LET old == VNFT_STATE.nfts[id]
                      new == VNFT_STATE'.nfts[id]
                  IN  /\ new.id = old.id
                      /\ new.owner # old.owner
                         => /\ last'.op = "transfer" /\ last'.err = "ok"
                            /\ last'.args.id = id
                      /\ new.metadata # old.metadata
                         => /\ last'.op \in {"start_metadata_update",
                                             "deliver", "update_metadata"}
                            /\ last'.err = "ok"
                            /\ last'.args.token_id = id
                            /\ [new.metadata EXCEPT !.current_media_index =
                                    old.metadata.current_media_index]
                               = old.metadata
       /\ (last'.op \in {"start_metadata_update", "deliver",
                          "update_metadata"} /\ last'.err = "ok")
          => LET id == last'.args.token_id
             IN  /\ id \in DOMAIN VNFT_STATE.nfts
                 /\ [VNFT_STATE' EXCEPT
                        !.nfts[id].metadata.current_media_index =
                           VNFT_STATE.nfts[id].metadata.current_media_index]
                    = VNFT_STATE]_vars

\* a start advanced one token while another token, of another owner, was
\* stored
C19_Witness ==
    /\ last.op = "start_metadata_update" /\ last.err = "ok" /\ last.dirty
    /\ DOMAIN VNFT_STATE.nfts = {1, 2}
    /\ VNFT_STATE.nfts[1].owner # VNFT_STATE.nfts[2].owner

----------------------------------------------------------------------------
(* C20 *)

\* C20: the continuation that a successful start_metadata_update(n, ..)
\* schedules is funded with gas_for_one_time_updating * n, or with the
\* largest u64 when that product does not fit.
C20_StartGas ==
    [][(last'.op = "start_metadata_update" /\ last'.err = "ok"
        /\ last'.args.updates_count - 1 > 0)
       => LET product == VNFT_STATE.gas_for_one_time_updating
                            * last'.args.updates_count
          IN  /\ Len(last'.sent) = 1
              /\ last'.sent[1].gas_limit
                 = IF product > U64Max THEN U64Max ELSE product
              /\ last'.sent[1].value = 0]_vars

\* a start scheduled a continuation whose budget stopped at the largest u64
C20_Witness ==
    /\ last.op = "start_metadata_update" /\ last.err = "ok"
    /\ Len(last.sent) = 1
    /\ VNFT_STATE.gas_for_one_time_updating * last.args.updates_count > U64Max
    /\ last.sent[1].gas_limit = U64Max

----------------------------------------------------------------------------
(* C21 *)

\* C21: when next_id is the largest u64 an authorized mint fails with
\* Overflow and leaves next_id, nfts and owner_nfts unchanged; next_id never
\* becomes smaller.
C21_MintOverflow ==
    [][/\ (last'.op = "mint" /\ CanMint(VNFT_STATE, last'.source)
           /\ VNFT_STATE.next_id = U64Max)
          => /\ last'.err = "Overflow"
             /\ ~last'.dirty
             /\ VNFT_STATE'.next_id = VNFT_STATE.next_id
             /\ VNFT_STATE'.nfts = VNFT_STATE.nfts
             /\ VNFT_STATE'.owner_nfts = VNFT_STATE.owner_nfts
       /\ VNFT_STATE'.next_id >= VNFT_STATE.next_id
       /\ VNFT_STATE'.next_id <= U64Max]_vars

\* the admin's mint failed with Overflow, next_id being the largest u64
C21_Witness ==
    /\ last.op = "mint" /\ last.err = "Overflow"
    /\ last.source = VNFT_STATE.admin
    /\ VNFT_STATE.next_id = U64Max
    /\ issued = [i \in 1..(U64Max - 1) |-> i]

----------------------------------------------------------------------------
(* C22 *)

\* C22: under every interleaving, the current_media_index of a token changes
\* only in a step of a chain whose starter owns the token at that step: a
\* successful start by the owner, or a successful delivery of a continuation
\* whose recorded owner, the caller of the chain's start, is the owner; a
\* chain started by a previous owner never advances the token.
C22_OnlyOwnersChainAdvances ==
    [][\A id \in DOMAIN VNFT_STATE.nfts \cap DOMAIN VNFT_STATE'.nfts :
          VNFT_STATE'.nfts[id].metadata.current_media_index
             # VNFT_STATE.nfts[id].metadata.current_media_index
          => /\ last'.err = "ok"
             /\ last'.args.token_id = id
             /\ \/ /\ last'.op = "start_metadata_update"
                   /\ VNFT_STATE.nfts[id].owner = last'.source
                \/ /\ last'.op = "deliver"
                   /\ VNFT_STATE.nfts[id].owner = last'.args.owner]_vars

\* a continuation was delivered while its token was owned by someone else
\* than the caller of the chain's start
C22_Witness ==
    /\ last.op = "deliver" /\ last.chain.changed
    /\ last.args.token_id \in DOMAIN VNFT_STATE.nfts
    /\ VNFT_STATE.nfts[last.args.token_id].owner # last.args.owner
    /\ VNFT_STATE.nfts[last.args.token_id].metadata.media # <<>>

----------------------------------------------------------------------------
(* C23 *)

\* C23: seeding with the zero principal fails; the admin of a seeded program
\* is the non-zero principal it was seeded with, and no operation changes
\* it.
C23_AdminFixed ==
    [][/\ \A main_contract \in {None} \cup Users, gas \in GasChoices :
            seed(Zero, main_contract, gas).err = "Admin cannot be zero"
       /\ VNFT_STATE.admin # Zero
       /\ VNFT_STATE.admin \in SeedAdmins
       /\ VNFT_STATE'.admin = VNFT_STATE.admin]_vars

\* the admin linked another principal as main contract while tokens were
\* stored, and is still the admin
C23_Witness ==
    /\ last.op = "set_main_contract" /\ last.err = "ok"
    /\ last.source = VNFT_STATE.admin
    /\ VNFT_STATE.main_contract \notin {None, VNFT_STATE.admin}
    /\ VNFT_STATE.nfts # <<>>

----------------------------------------------------------------------------
(* C24 *)

KeyringOps == {"add_key", "remove_key", "update_key"}

\* C24: add_key succeeds only when the caller has no keyring entry, and
\* update_key and remove_key succeed only when the caller has one; a call
\* made in the other case fails and leaves the keyring unchanged; a call
\* changes no entry but the caller's own, and no other operation changes the
\* keyring; so a user has an entry exactly when their last successful
\* keyring call was add_key or update_key.
C24_Keyring ==
    [][LET keyring == MAIN_CONTRACT_STATE.keyring
           after == MAIN_CONTRACT_STATE'.keyring
           op == main_last'.op
           user == main_last'.source
           ok == main_last'.err = "ok"
       IN  /\ op = "add_key" =>
                /\ ok => user \notin DOMAIN keyring /\ user \in DOMAIN after
                /\ user \in DOMAIN keyring =>
                      main_last'.err = "Key already exists for user"
           /\ op = "update_key" =>
                /\ ok => user \in DOMAIN keyring /\ user \in DOMAIN after
                /\ user \notin DOMAIN keyring =>
                      main_last'.err = "No key exists for user"
           /\ op = "remove_key" =>
                /\ ok => user \in DOMAIN keyring /\ user \notin DOMAIN after
                /\ user \notin DOMAIN keyring =>
                      main_last'.err = "No key exists for user"
           /\ ~ok => after = keyring
           /\ op \notin KeyringOps => after = keyring
           /\ \A u \in Users \ {user} :
                /\ u \in DOMAIN after <=> u \in DOMAIN keyring
                /\ u \in DOMAIN keyring => after[u] = keyring[u]
           /\ \A u \in Users :
                u \in DOMAIN after <=> key_calls'[u] \in {"add_key", "update_key"}
      ]_vars

\* a user removed their key, added one again and replaced it, while the
\* other user's last successful call was a removal
C24_Witness ==
    /\ main_last.op = "update_key" /\ main_last.err = "ok"
    /\ main_last.source \in DOMAIN MAIN_CONTRACT_STATE.keyring
    /\ \E u \in Users \ {main_last.source} :
          /\ key_calls[u] = "remove_key"
          /\ u \notin DOMAIN MAIN_CONTRACT_STATE.keyring

----------------------------------------------------------------------------
(* C25 *)

\* C25: every entry of last_run_stats stored under key u has its user field
\* equal to u.
C25_StatsUserIsKey ==
    \A u \in DOMAIN MAIN_CONTRACT_STATE.last_run_stats :
       MAIN_CONTRACT_STATE.last_run_stats[u].user = u

====
